---- MODULE Spec2Model ----
(***************************************************************************)
(* Model of fuel-core's unified read view (graphql_api/database.rs) and of *)
(* the on-chain genesis import handlers (genesis/importer/on_chain.rs).    *)
(*                                                                         *)
(* Two specifications share the variables:                                 *)
(*   Spec        the read path: writers commit blocks, ReadDatabase::view  *)
(*               takes the two views, queries run against the ReadView;    *)
(*   SpecImport  the genesis import: groups of table entries are handed to *)
(*               the handlers inside one write transaction.                *)
(***************************************************************************)
EXTENDS Integers, Sequences, FiniteSets

\* ------------------------------------------------------------------ bounds
MaxHeight == 3
MaxGroups == 2
MaxRows == 3
MaxGenesis == 1

Heights == 0..MaxHeight

VARIABLES
    on_chain_db,    \* the current-epoch store: [genesis, latest]; its blocks are genesis..latest
    off_chain_db,   \* the historical-index store: [old_blocks, height]
    read_view,      \* the ReadView a caller holds: [pc, on_chain, off_chain]
    taken,          \* history: the store states at the two latest_view() calls
    call,           \* the last query issued through the ReadView and what it returned
    database,       \* the store the genesis import writes to: table -> entries
    handler,        \* the import context of the handlers: [block_height, da_block_height]
    tx,             \* the write transaction of the import: [changes: table -> entries]
    import,         \* the coordinator: [status, groups, rows]
    processed,      \* the last handler call: its group, the storage outcome, its result
    hist            \* history: the store before the import and every entry handed over

read_vars == <<on_chain_db, off_chain_db, read_view, taken, call>>
import_vars == <<database, handler, tx, import, processed, hist>>

\* ------------------------------------------------------------ plain helpers
Min(S) == CHOOSE x \in S : \A y \in S : x <= y

RECURSIVE Ascending(_)
Ascending(S) == IF S = {} THEN <<>> ELSE <<Min(S)>> \o Ascending(S \ {Min(S)})

Rev(s) == [i \in 1..Len(s) |-> s[Len(s) + 1 - i]]

\* Option<BlockHeight>: None is the empty sequence, Some(h) is <<h>>.
None == <<>>
Some(h) == <<h>>
OptHeights == {None} \cup {Some(h) : h \in Heights}

Forward == "Forward"
Reverse == "Reverse"
Directions == {Forward, Reverse}

\* StorageResult<T>
Ok(v) == [ok |-> TRUE, value |-> v]
Err(e) == [ok |-> FALSE, err |-> e]

\* What the storage engine does during one call: how the read of the genesis
\* height ends ("ok" or an error), and the heights whose block fails to be read.
GenesisReads == {"ok", "NotFound", "Io"}
IoOutcomes ==
    { [genesis |-> g, bad |-> b] :
        g \in GenesisReads, b \in {{}} \cup {{h} : h \in Heights} }

\* --------------------------------------------------- the two source views
\* AtomicView::latest_view: the store as it is at the call.
latest_view(db) == db

\* One item of a block iterator; src records which source produced it.
BlockItem(src, h, io) ==
    [src |-> src, res |-> IF h \in io.bad THEN Err("BlockRead") ELSE Ok(h)]

\* The heights an iterator started at `height` walks, in `direction`.
Walk(S, height, direction) ==
    LET from == IF height = None THEN S
                ELSE IF direction = Forward THEN {x \in S : x >= height[1]}
                ELSE {x \in S : x <= height[1]}
    IN  IF direction = Forward THEN Ascending(from) ELSE Rev(Ascending(from))

\* OnChainDatabase::blocks on the on-chain view
on_chain_blocks(v, height, direction, io) ==
    LET w == Walk(v.genesis..v.latest, height, direction)
    IN  [i \in 1..Len(w) |-> BlockItem("on_chain", w[i], io)]

\* OffChainDatabase::old_blocks on the off-chain view
off_chain_old_blocks(v, height, direction, io) ==
    LET w == Walk(v.old_blocks, height, direction)
    IN  [i \in 1..Len(w) |-> BlockItem("off_chain", w[i], io)]

\* OnChainDatabase::latest_genesis_height on the on-chain view
on_chain_latest_genesis_height(v, io) ==
    IF io.genesis = "ok" THEN Ok(v.genesis) ELSE Err(io.genesis)

\* OnChainDatabase::latest_height on the on-chain view
on_chain_latest_height(v) == Ok(v.latest)

\* OffChainDatabase::tx_status on the off-chain view, for a transaction of block h
off_chain_tx_status(v, h) ==
    IF h <= v.height THEN Ok(h) ELSE Err("NotFound")

\* chain ending the sequence with the first error item of its first iterator.
chain_fused(a, b) ==
    LET errs == {i \in 1..Len(a) : ~a[i].res.ok}
    IN  IF errs = {} THEN a \o b ELSE SubSeq(a, 1, Min(errs))

\* Iterator::chain
chain(a, b) == a \o b

\* core::iter::once(Err(err))
once_err(e) == << [src |-> "on_chain", res |-> Err(e)] >>

\* ------------------------------------------------------------ ReadView
\* blocks_from with the forward scan from below the boundary not continued
\* into the on-chain source.
blocks_from_unchained(self, height, direction, io, onchain_start_height) ==
    IF height[1] >= onchain_start_height /\ direction = Forward THEN
        on_chain_blocks(self.on_chain, height, direction, io)
    ELSE IF height[1] >= onchain_start_height /\ direction = Reverse THEN
        chain(on_chain_blocks(self.on_chain, height, direction, io),
              off_chain_old_blocks(self.off_chain, None, direction, io))
    ELSE
        off_chain_old_blocks(self.off_chain, height, direction, io)

\* blocks_from with the boundary test written height > onchain_start_height.
blocks_from_strict(self, height, direction, io, onchain_start_height) ==
    IF height[1] > onchain_start_height /\ direction = Forward THEN
        on_chain_blocks(self.on_chain, height, direction, io)
    ELSE IF height[1] > onchain_start_height /\ direction = Reverse THEN
        chain(on_chain_blocks(self.on_chain, height, direction, io),
              off_chain_old_blocks(self.off_chain, None, direction, io))
    ELSE IF direction = Forward THEN
        chain(off_chain_old_blocks(self.off_chain, height, direction, io),
              on_chain_blocks(self.on_chain, None, direction, io))
    ELSE
        off_chain_old_blocks(self.off_chain, height, direction, io)

\* ReadView::blocks, the start height given and the boundary read:
\* match (height >= onchain_start_height, direction)
blocks_from(self, height, direction, io, onchain_start_height) ==
    IF height[1] >= onchain_start_height /\ direction = Forward THEN
        on_chain_blocks(self.on_chain, height, direction, io)
    ELSE IF height[1] >= onchain_start_height /\ direction = Reverse THEN
        chain(on_chain_blocks(self.on_chain, height, direction, io),
              off_chain_old_blocks(self.off_chain, None, direction, io))
    ELSE IF direction = Forward THEN
        chain(off_chain_old_blocks(self.off_chain, height, direction, io),
              on_chain_blocks(self.on_chain, None, direction, io))
    ELSE
        off_chain_old_blocks(self.off_chain, height, direction, io)

\* blocks_all chaining the two sources in the forward order in both directions.
blocks_all_one_order(self, direction, io) ==
    chain(off_chain_old_blocks(self.off_chain, None, direction, io),
          on_chain_blocks(self.on_chain, None, direction, io))

\* ReadView::blocks, no start height: match direction
blocks_all(self, direction, io) ==
    IF direction = Forward THEN
        chain(off_chain_old_blocks(self.off_chain, None, direction, io),
              on_chain_blocks(self.on_chain, None, direction, io))
    ELSE
        chain(on_chain_blocks(self.on_chain, None, direction, io),
              off_chain_old_blocks(self.off_chain, None, direction, io))

\* blocks answering from the on-chain source when the boundary cannot be read.
blocks_err_dropped(self, height, direction, io) ==
    IF height # None THEN
        LET lgh == on_chain_latest_genesis_height(self.on_chain, io) IN
        IF lgh.ok THEN blocks_from(self, height, direction, io, lgh.value)
        ELSE on_chain_blocks(self.on_chain, height, direction, io)
    ELSE blocks_all(self, direction, io)

\* <ReadView as DatabaseBlocks>::blocks
blocks(self, height, direction, io) ==
    IF height # None THEN
        LET lgh == on_chain_latest_genesis_height(self.on_chain, io) IN
        IF lgh.ok THEN blocks_from(self, height, direction, io, lgh.value)
        ELSE once_err(lgh.err)
    ELSE blocks_all(self, direction, io)

\* latest_height asking the store for a fresh view instead of using its own.
latest_height_fresh(self) == on_chain_latest_height(latest_view(on_chain_db))

\* <ReadView as DatabaseBlocks>::latest_height
latest_height(self) == on_chain_latest_height(self.on_chain)

\* <ReadView as OffChainDatabase>::tx_status
tx_status(self, h) == off_chain_tx_status(self.off_chain, h)

\* The other delegating methods. What each source view answers to the query
\* of one call is an input of the call; a method's result carries the calls
\* it made to the sources.
OnChainAnswers == {Ok("on_chain value"), Err("on_chain failure")}
OffChainAnswers == {Ok("off_chain value"), Err("off_chain failure")}
Answers == [on_chain : OnChainAnswers, off_chain : OffChainAnswers]

\* self.on_chain.<method>(..) / self.off_chain.<method>(..)
ask(source, answers) == [ret |-> answers[source], asked |-> <<source>>]

\* <ReadView as DatabaseBlocks>::latest_genesis_height
latest_genesis_height(answers) == ask("on_chain", answers)

\* <ReadView as StorageInspect<M>>::get, contains_key
storage_inspect(method, answers) == ask("on_chain", answers)

\* <ReadView as DatabaseMessages>::all_messages, message_is_spent, message_exists
database_messages(method, answers) == ask("on_chain", answers)

\* <ReadView as DatabaseRelayedTransactions>::transaction_status:
\* let maybe_status = self.off_chain.relayed_tx_status(id)?; Ok(maybe_status)
transaction_status(answers) ==
    LET maybe_status == ask("off_chain", answers) IN
    IF maybe_status.ret.ok
    THEN [ret |-> Ok(maybe_status.ret.value), asked |-> maybe_status.asked]
    ELSE [ret |-> Err(maybe_status.ret.err), asked |-> maybe_status.asked]

\* <ReadView as DatabaseContracts>::contract_balances
contract_balances(answers) == ask("on_chain", answers)

\* <ReadView as DatabaseChain>::da_height (named apart from the da_height
\* argument of init_da_message)
read_view_da_height(answers) == ask("on_chain", answers)

\* <ReadView as DatabaseMessageProof>::block_history_proof
block_history_proof(answers) == ask("on_chain", answers)

\* off_chain_database asking the on-chain source when the off-chain source fails.
off_chain_database_fallback(method, answers) ==
    LET first == ask("off_chain", answers) IN
    IF first.ret.ok THEN first
    ELSE [ret |-> ask("on_chain", answers).ret,
          asked |-> first.asked \o ask("on_chain", answers).asked]

\* <ReadView as OffChainDatabase>::block_height, owned_coins_ids,
\* owned_message_ids, owned_transactions_ids, contract_salt,
\* old_block_consensus, old_transaction, relayed_tx_status
off_chain_database(method, answers) == ask("off_chain", answers)

StorageInspectMethods == {"get", "contains_key"}
DatabaseMessagesMethods == {"all_messages", "message_is_spent", "message_exists"}
OffChainDatabaseMethods ==
    {"block_height", "owned_coins_ids", "owned_message_ids",
     "owned_transactions_ids", "contract_salt", "old_block_consensus",
     "old_transaction", "relayed_tx_status"}
Methods ==
    StorageInspectMethods \cup DatabaseMessagesMethods \cup OffChainDatabaseMethods
    \cup {"latest_genesis_height", "transaction_status", "contract_balances",
          "da_height", "block_history_proof"}

\* The method of ReadView a caller names.
lookup(method, answers) ==
    CASE method = "latest_genesis_height" -> latest_genesis_height(answers)
      [] method \in StorageInspectMethods -> storage_inspect(method, answers)
      [] method \in DatabaseMessagesMethods -> database_messages(method, answers)
      [] method = "transaction_status" -> transaction_status(answers)
      [] method = "contract_balances" -> contract_balances(answers)
      [] method = "da_height" -> read_view_da_height(answers)
      [] method = "block_history_proof" -> block_history_proof(answers)
      [] method \in OffChainDatabaseMethods -> off_chain_database(method, answers)

\* ------------------------------------------------------------ read path
NoView == [pc |-> "none"]
NoCall == [op |-> "none"]

\* The two stores as they are now (recorded with each call, as history).
Stores == [on_chain |-> on_chain_db, off_chain |-> off_chain_db]

\* InitRead with the boundary block also kept in the historical index.
InitReadOverlap ==
    /\ \E g \in Heights :
        /\ on_chain_db = [genesis |-> g, latest |-> g]
        /\ \E old \in SUBSET (0..g) :
              off_chain_db = [old_blocks |-> old, height |-> g]
    /\ read_view = NoView
    /\ taken = NoView
    /\ call = NoCall

\* The node after start-up: the current epoch begins at its genesis block g,
\* the historical index holds blocks of earlier epochs only.
InitRead ==
    /\ \E g \in Heights :
        /\ on_chain_db = [genesis |-> g, latest |-> g]
        /\ \E old \in SUBSET (0..(g - 1)) :
              off_chain_db = [old_blocks |-> old, height |-> g]
    /\ read_view = NoView
    /\ taken = NoView
    /\ call = NoCall

\* The block producer commits the next block to the on-chain store.
CommitBlock ==
    /\ on_chain_db.latest < MaxHeight
    /\ on_chain_db' = [on_chain_db EXCEPT !.latest = @ + 1]
    /\ UNCHANGED <<off_chain_db, read_view, taken, call, import_vars>>

\* The off-chain worker indexes the next committed block.
IndexBlock ==
    /\ off_chain_db.height < on_chain_db.latest
    /\ off_chain_db' = [off_chain_db EXCEPT !.height = @ + 1]
    /\ UNCHANGED <<on_chain_db, read_view, taken, call, import_vars>>

\* ReadDatabase::view, first field: on_chain: self.on_chain.latest_view()
view_on_chain ==
    /\ read_view.pc = "none"
    /\ read_view' = [pc |-> "on_chain", on_chain |-> latest_view(on_chain_db)]
    /\ taken' = [pc |-> "on_chain", on_chain |-> on_chain_db]
    /\ call' = NoCall
    /\ UNCHANGED <<on_chain_db, off_chain_db, import_vars>>

\* view_off_chain taking both views anew in its one step, as one snapshot.
view_off_chain_one_snapshot ==
    /\ read_view.pc = "on_chain"
    /\ read_view' = [pc |-> "ready", on_chain |-> latest_view(on_chain_db),
                     off_chain |-> latest_view(off_chain_db)]
    /\ taken' = [pc |-> "ready", on_chain |-> on_chain_db,
                 off_chain |-> off_chain_db]
    /\ UNCHANGED <<on_chain_db, off_chain_db, call, import_vars>>

\* ReadDatabase::view, second field: off_chain: self.off_chain.latest_view()
view_off_chain ==
    /\ read_view.pc = "on_chain"
    /\ read_view' = [pc |-> "ready", on_chain |-> read_view.on_chain,
                     off_chain |-> latest_view(off_chain_db)]
    /\ taken' = [pc |-> "ready", on_chain |-> taken.on_chain,
                 off_chain |-> off_chain_db]
    /\ UNCHANGED <<on_chain_db, off_chain_db, call, import_vars>>

\* The caller is done with the result of its last query.
drop_call ==
    /\ call # NoCall
    /\ call' = NoCall
    /\ UNCHANGED <<on_chain_db, off_chain_db, read_view, taken, import_vars>>

\* The caller drops the ReadView at the end of its request.
drop_view ==
    /\ read_view.pc = "ready"
    /\ read_view' = NoView
    /\ taken' = NoView
    /\ call' = NoCall
    /\ UNCHANGED <<on_chain_db, off_chain_db, import_vars>>

\* A caller runs ReadView::blocks and collects the whole iterator.
Blocks ==
    /\ read_view.pc = "ready"
    /\ call = NoCall
    /\ \E height \in OptHeights, direction \in Directions, io \in IoOutcomes :
          call' = [op |-> "blocks", height |-> height, direction |-> direction,
                   io |-> io, ret |-> blocks(read_view, height, direction, io),
                   now |-> Stores]
    /\ UNCHANGED <<on_chain_db, off_chain_db, read_view, taken, import_vars>>

\* A caller runs ReadView::latest_height.
LatestHeight ==
    /\ read_view.pc = "ready"
    /\ call = NoCall
    /\ call' = [op |-> "latest_height", ret |-> latest_height(read_view),
                now |-> Stores]
    /\ UNCHANGED <<on_chain_db, off_chain_db, read_view, taken, import_vars>>

\* A caller runs ReadView::tx_status.
TxStatus ==
    /\ read_view.pc = "ready"
    /\ call = NoCall
    /\ \E h \in Heights :
          call' = [op |-> "tx_status", h |-> h, ret |-> tx_status(read_view, h),
                   now |-> Stores]
    /\ UNCHANGED <<on_chain_db, off_chain_db, read_view, taken, import_vars>>

\* A caller runs one of the delegating methods of ReadView.
PointLookup ==
    /\ read_view.pc = "ready"
    /\ call = NoCall
    /\ \E method \in Methods, answers \in Answers :
          LET r == lookup(method, answers) IN
          call' = [op |-> "lookup", method |-> method, answers |-> answers,
                   ret |-> r.ret, asked |-> r.asked, now |-> Stores]
    /\ UNCHANGED <<on_chain_db, off_chain_db, read_view, taken, import_vars>>

NextRead ==
    \/ CommitBlock
    \/ IndexBlock
    \/ view_on_chain
    \/ view_off_chain
    \/ drop_view
    \/ drop_call
    \/ Blocks
    \/ LatestHeight
    \/ TxStatus
    \/ PointLookup

\* ====================================================== genesis import
Keys == {"a", "b"}
HeightTables == {"Coins", "Messages", "ContractsLatestUtxo"}
PerRowTables == HeightTables \cup {"ContractsRawCode"}
BulkTables == {"ContractsState", "ContractsAssets"}
Tables == PerRowTables \cup BulkTables

\* The genesis point of the import: a fresh chain, or a regenesis at MaxGenesis.
GenesisHeights == {0, MaxGenesis}

\* The heights an entry may record: at the bound g it is checked against, or
\* one above it.
EntryHeights(g) == {g, g + 1}

\* The contract codes, and the one value of a state slot or a balance.
Codes == {"code1", "code2"}
Slots == {"slot"}

\* The bound a table's entries are checked against.
BoundOf(table, self) ==
    IF table = "Messages" THEN self.da_block_height ELSE self.block_height

\* TableEntry<T>. The value of a coin or latest-UTXO entry is its tx_pointer
\* block height, of a message its da_height (its key is its nonce); the
\* value of the other tables' entries is opaque.
TableEntry(k, v) == [key |-> k, value |-> v]
Entries(table, self) ==
    { TableEntry(k, v) :
        k \in Keys,
        v \in IF table \in HeightTables THEN EntryHeights(BoundOf(table, self))
              ELSE IF table = "ContractsRawCode" THEN Codes
              ELSE Slots }
GroupsOf(table, self, n) == [1..n -> Entries(table, self)]

EmptyTables == [t \in Tables |-> {}]
OkUnit == Ok("unit")

\* A table holds at most one entry per key.
Lookup(rows, key) == {r \in rows : r.key = key}
Put(rows, entry) == (rows \ Lookup(rows, entry.key)) \cup {entry}

\* What a read through the transaction sees: its staged changes over the store.
tx_get(transaction, table, key) ==
    IF Lookup(transaction.changes[table], key) # {}
    THEN Lookup(transaction.changes[table], key)
    ELSE Lookup(database[table], key)

\* StorageMutate::insert on the transaction: stages the entry and returns the
\* previous value (the empty set for None).
insert(transaction, table, entry) ==
    [tx |-> [transaction EXCEPT !.changes[table] = Put(@, entry)],
     prev |-> tx_get(transaction, table, entry.key)]

\* init_coin without the check of the tx_pointer height.
init_coin_unbounded(transaction, coin, height, write_fails) ==
    IF write_fails THEN
        [tx |-> transaction, ret |-> Err("StoreWrite")]
    ELSE
        LET ins == insert(transaction, "Coins", coin) IN
        IF ins.prev # {} THEN [tx |-> ins.tx, ret |-> Err("Duplicate")]
        ELSE [tx |-> ins.tx, ret |-> OkUnit]

\* init_coin with the height check written coin_height >= height.
init_coin_at_bound(transaction, coin, height, write_fails) ==
    LET coin_height == coin.value IN
    IF coin_height >= height THEN
        [tx |-> transaction, ret |-> Err("CausalBound")]
    ELSE IF write_fails THEN
        [tx |-> transaction, ret |-> Err("StoreWrite")]
    ELSE
        LET ins == insert(transaction, "Coins", coin) IN
        IF ins.prev # {} THEN [tx |-> ins.tx, ret |-> Err("Duplicate")]
        ELSE [tx |-> ins.tx, ret |-> OkUnit]

\* init_coin ignoring the previous value insert returns.
init_coin_overwriting(transaction, coin, height, write_fails) ==
    LET coin_height == coin.value IN
    IF coin_height > height THEN
        [tx |-> transaction, ret |-> Err("CausalBound")]
    ELSE IF write_fails THEN
        [tx |-> transaction, ret |-> Err("StoreWrite")]
    ELSE
        [tx |-> insert(transaction, "Coins", coin).tx, ret |-> OkUnit]

\* fn init_coin
init_coin(transaction, coin, height, write_fails) ==
    LET coin_height == coin.value IN
    IF coin_height > height THEN
        [tx |-> transaction, ret |-> Err("CausalBound")]
    ELSE IF write_fails THEN
        [tx |-> transaction, ret |-> Err("StoreWrite")]
    ELSE
        LET ins == insert(transaction, "Coins", coin) IN
        IF ins.prev # {} THEN [tx |-> ins.tx, ret |-> Err("Duplicate")]
        ELSE [tx |-> ins.tx, ret |-> OkUnit]

\* init_contract_latest_utxo ignoring the previous value insert returns.
init_contract_latest_utxo_overwriting(transaction, entry, height, write_fails) ==
    IF entry.value > height THEN
        [tx |-> transaction, ret |-> Err("CausalBound")]
    ELSE IF write_fails THEN
        [tx |-> transaction, ret |-> Err("StoreWrite")]
    ELSE
        [tx |-> insert(transaction, "ContractsLatestUtxo", entry).tx, ret |-> OkUnit]

\* fn init_contract_latest_utxo
init_contract_latest_utxo(transaction, entry, height, write_fails) ==
    IF entry.value > height THEN
        [tx |-> transaction, ret |-> Err("CausalBound")]
    ELSE IF write_fails THEN
        [tx |-> transaction, ret |-> Err("StoreWrite")]
    ELSE
        LET ins == insert(transaction, "ContractsLatestUtxo", entry) IN
        IF ins.prev # {} THEN [tx |-> ins.tx, ret |-> Err("Duplicate")]
        ELSE [tx |-> ins.tx, ret |-> OkUnit]

\* init_contract_raw_code looking the key up first and writing only when it
\* is free.
init_contract_raw_code_check_first(transaction, entry, write_fails) ==
    IF tx_get(transaction, "ContractsRawCode", entry.key) # {} THEN
        [tx |-> transaction, ret |-> Err("Duplicate")]
    ELSE IF write_fails THEN
        [tx |-> transaction, ret |-> Err("StoreWrite")]
    ELSE
        [tx |-> insert(transaction, "ContractsRawCode", entry).tx, ret |-> OkUnit]

\* fn init_contract_raw_code
init_contract_raw_code(transaction, entry, write_fails) ==
    IF write_fails THEN
        [tx |-> transaction, ret |-> Err("StoreWrite")]
    ELSE
        LET ins == insert(transaction, "ContractsRawCode", entry) IN
        IF ins.prev # {} THEN [tx |-> ins.tx, ret |-> Err("Duplicate")]
        ELSE [tx |-> ins.tx, ret |-> OkUnit]

\* init_da_message ignoring the previous value insert returns.
init_da_message_overwriting(transaction, msg, da_height, write_fails) ==
    IF msg.value > da_height THEN
        [tx |-> transaction, ret |-> Err("CausalBound")]
    ELSE IF write_fails THEN
        [tx |-> transaction, ret |-> Err("StoreWrite")]
    ELSE
        [tx |-> insert(transaction, "Messages", msg).tx, ret |-> OkUnit]

\* fn init_da_message
init_da_message(transaction, msg, da_height, write_fails) ==
    IF msg.value > da_height THEN
        [tx |-> transaction, ret |-> Err("CausalBound")]
    ELSE IF write_fails THEN
        [tx |-> transaction, ret |-> Err("StoreWrite")]
    ELSE
        LET ins == insert(transaction, "Messages", msg) IN
        IF ins.prev # {} THEN [tx |-> ins.tx, ret |-> Err("Duplicate")]
        ELSE [tx |-> ins.tx, ret |-> OkUnit]

\* The closure each per-row handler hands to try_for_each.
init_row(table, self, transaction, entry, write_fails) ==
    CASE table = "Coins" ->
            init_coin(transaction, entry, self.block_height, write_fails)
      [] table = "Messages" ->
            init_da_message(transaction, entry, self.da_block_height, write_fails)
      [] table = "ContractsRawCode" ->
            init_contract_raw_code(transaction, entry, write_fails)
      [] table = "ContractsLatestUtxo" ->
            init_contract_latest_utxo(transaction, entry, self.block_height, write_fails)

\* group.into_iter().try_for_each(..): stops at the first row that returns an
\* error; `at` is that row's position (0 when every row succeeded). The
\* store write of row fail_at fails, if that write is reached.
RECURSIVE try_for_each(_, _, _, _, _, _)
try_for_each(table, self, transaction, group, i, fail_at) ==
    IF i > Len(group) THEN [tx |-> transaction, ret |-> OkUnit, at |-> 0]
    ELSE LET r == init_row(table, self, transaction, group[i], i = fail_at) IN
         IF r.ret.ok
         THEN try_for_each(table, self, r.tx, group, i + 1, fail_at)
         ELSE [tx |-> r.tx, ret |-> r.ret, at |-> i]

\* RECURSIVE helper of the bulk merge: the first n rows merged in order.
RECURSIVE MergeRows(_, _, _)
MergeRows(rows, group, n) ==
    IF n = 0 THEN rows ELSE Put(MergeRows(rows, group, n - 1), group[n])

\* StateInitializer::update_contract_states / BalancesInitializer::
\* update_contract_balances: merges the whole group; when it fails (fail_at > 0)
\* the rows before fail_at may already be merged. `merged` is the record of
\* the call: the group it was given.
bulk_update(table, transaction, group, fail_at) ==
    IF fail_at = 0 THEN
        [tx |-> [transaction EXCEPT !.changes[table] = MergeRows(@, group, Len(group))],
         ret |-> OkUnit, at |-> 0, merged |-> <<group>>]
    ELSE
        [tx |-> [transaction EXCEPT !.changes[table] = MergeRows(@, group, fail_at - 1)],
         ret |-> Err("StoreWrite"), at |-> 0, merged |-> <<group>>]

\* process_coins refusing a group that has no row.
process_coins_nonempty(self, group, transaction, fail_at) ==
    IF Len(group) = 0
    THEN [tx |-> transaction, ret |-> Err("EmptyGroup"), at |-> 0]
    ELSE try_for_each("Coins", self, transaction, group, 1, fail_at)

\* <Handler<Coins, Coins> as ImportTable>::process
process_coins(self, group, transaction, fail_at) ==
    try_for_each("Coins", self, transaction, group, 1, fail_at)

\* process_messages handing back the transaction as it received it when a
\* row fails.
process_messages_rollback(self, group, transaction, fail_at) ==
    LET r == try_for_each("Messages", self, transaction, group, 1, fail_at)
    IN  IF r.ret.ok THEN r ELSE [r EXCEPT !.tx = transaction]

\* <Handler<Messages, Messages> as ImportTable>::process
process_messages(self, group, transaction, fail_at) ==
    try_for_each("Messages", self, transaction, group, 1, fail_at)

\* <Handler<ContractsRawCode, ContractsRawCode> as ImportTable>::process
process_contracts_raw_code(self, group, transaction, fail_at) ==
    try_for_each("ContractsRawCode", self, transaction, group, 1, fail_at)

\* <Handler<ContractsLatestUtxo, ContractsLatestUtxo> as ImportTable>::process
process_contracts_latest_utxo(self, group, transaction, fail_at) ==
    try_for_each("ContractsLatestUtxo", self, transaction, group, 1, fail_at)

\* process_contracts_state checking the rows for a repeated key before it
\* hands the group to the bulk merge.
process_contracts_state_checked(self, group, transaction, fail_at) ==
    LET repeated == {j \in 1..Len(group) :
                        \E i \in 1..(j - 1) : group[i].key = group[j].key}
    IN  IF repeated # {}
        THEN [tx |-> transaction, ret |-> Err("Duplicate"), at |-> Min(repeated),
              merged |-> <<>>]
        ELSE bulk_update("ContractsState", transaction, group, fail_at)

\* <Handler<ContractsState, ContractsState> as ImportTable>::process
process_contracts_state(self, group, transaction, fail_at) ==
    bulk_update("ContractsState", transaction, group, fail_at)

\* <Handler<ContractsAssets, ContractsAssets> as ImportTable>::process
process_contracts_assets(self, group, transaction, fail_at) ==
    bulk_update("ContractsAssets", transaction, group, fail_at)

\* The handler the coordinator picks for a table kind.
process(table, self, group, transaction, fail_at) ==
    CASE table = "Coins" -> process_coins(self, group, transaction, fail_at)
      [] table = "Messages" -> process_messages(self, group, transaction, fail_at)
      [] table = "ContractsRawCode" ->
            process_contracts_raw_code(self, group, transaction, fail_at)
      [] table = "ContractsLatestUtxo" ->
            process_contracts_latest_utxo(self, group, transaction, fail_at)
      [] table = "ContractsState" ->
            process_contracts_state(self, group, transaction, fail_at)
      [] table = "ContractsAssets" ->
            process_contracts_assets(self, group, transaction, fail_at)

\* StorageTransaction::commit: the staged changes applied over the store.
Committed(db, transaction) ==
    [t \in Tables |->
        {r \in db[t] : Lookup(transaction.changes[t], r.key) = {}}
            \cup transaction.changes[t]]

\* ------------------------------------------------------- import coordinator
NoTx == [changes |-> EmptyTables]
NoProcessed == [table |-> "none", ret |-> OkUnit]

\* The store the import starts from: empty, or every per-row table already
\* holding key "a".
InitialDatabases ==
    { EmptyTables,
      [t \in Tables |->
          IF t \in HeightTables THEN {TableEntry("a", 0)}
          ELSE IF t = "ContractsRawCode" THEN {TableEntry("a", "code1")}
          ELSE {}] }

FailAts(table, n) == IF table \in BulkTables THEN 0..(n + 1) ELSE 0..n

InitImport ==
    /\ database \in InitialDatabases
    /\ handler \in [block_height : GenesisHeights, da_block_height : GenesisHeights]
    /\ tx = NoTx
    /\ import = [status |-> "running", groups |-> 0, rows |-> 0]
    /\ processed = NoProcessed
    /\ hist = [db0 |-> database, fed |-> <<>>, write_failed |-> FALSE]

\* The coordinator hands the next group of a table to its handler. fail_at
\* names the store write that fails during the call, if one does.
Process(table) ==
    /\ import.status = "running"
    /\ processed.ret.ok
    /\ import.groups < MaxGroups
    /\ \E n \in 0..(MaxRows - import.rows) :
       \E group \in GroupsOf(table, handler, n) :
       \E fail_at \in FailAts(table, n) :
          LET r == process(table, handler, group, tx, fail_at) IN
          /\ fail_at = 0 \/ r.ret = Err("StoreWrite")
          /\ tx' = r.tx
          /\ processed' = [table |-> table, group |-> group, fail_at |-> fail_at,
                           ret |-> r.ret, at |-> r.at, tx_before |-> tx,
                           merged |-> IF table \in BulkTables THEN r.merged
                                      ELSE <<>>]
          /\ import' = [import EXCEPT !.groups = @ + 1, !.rows = @ + n]
          /\ hist' = [hist EXCEPT
                        !.fed = @ \o [i \in 1..n |-> [table |-> table, entry |-> group[i]]],
                        !.write_failed = @ \/ fail_at # 0]
    /\ UNCHANGED <<database, handler, read_vars>>

\* A handler returned an error: the coordinator discards the transaction.
Abort ==
    /\ import.status = "running"
    /\ ~processed.ret.ok
    /\ tx' = NoTx
    /\ import' = [import EXCEPT !.status = "failed"]
    /\ UNCHANGED <<database, handler, processed, hist, read_vars>>

\* Every group was processed: the coordinator commits the transaction once.
Commit ==
    /\ import.status = "running"
    /\ processed.ret.ok
    /\ \E commit_fails \in BOOLEAN :
          /\ database' = IF commit_fails THEN database ELSE Committed(database, tx)
          /\ import' = [import EXCEPT
                          !.status = IF commit_fails THEN "failed" ELSE "committed"]
          /\ hist' = [hist EXCEPT !.write_failed = @ \/ commit_fails]
    /\ tx' = NoTx
    /\ UNCHANGED <<handler, processed, read_vars>>

NextImport ==
    \/ Process("Coins")
    \/ Process("Messages")
    \/ Process("ContractsRawCode")
    \/ Process("ContractsLatestUtxo")
    \/ Process("ContractsState")
    \/ Process("ContractsAssets")
    \/ Abort
    \/ Commit

\* ------------------------------------------------------- specifications
\* The read path runs against a node whose import is over.
ImportIdle ==
    /\ database = EmptyTables
    /\ handler = [block_height |-> 0, da_block_height |-> 0]
    /\ tx = NoTx
    /\ import = [status |-> "committed", groups |-> 0, rows |-> 0]
    /\ processed = NoProcessed
    /\ hist = [db0 |-> EmptyTables, fed |-> <<>>, write_failed |-> FALSE]

\* The import runs at bootstrap, before any view is handed out.
ReadIdle ==
    /\ on_chain_db = [genesis |-> 0, latest |-> 0]
    /\ off_chain_db = [old_blocks |-> {}, height |-> 0]
    /\ read_view = NoView
    /\ taken = NoView
    /\ call = NoCall

vars == <<read_vars, import_vars>>

Init == InitRead /\ ImportIdle
Next == NextRead
Spec == Init /\ [][Next]_vars

InitGenesis == InitImport /\ ReadIdle
SpecImport == InitGenesis /\ [][NextImport]_vars

\* ================================================================ claims
\* ---- helpers of the read-path claims
IsBlocksCall == read_view.pc = "ready" /\ call.op = "blocks"
Boundary == read_view.on_chain.genesis
OnChainHeights == read_view.on_chain.genesis..read_view.on_chain.latest
OldHeights == read_view.off_chain.old_blocks

\* The historical index holds only heights below the boundary, the current
\* epoch only heights at or above it.
Partitioned ==
    /\ \A x \in OldHeights : x < Boundary
    /\ \A x \in OnChainHeights : x >= Boundary

Max2(a, b) == IF a >= b THEN a ELSE b

\* The rows of S from one source, ascending or descending, each as the call read it.
RowsOf(src, S, direction) ==
    LET w == IF direction = Forward THEN Ascending(S) ELSE Rev(Ascending(S))
    IN  [i \in 1..Len(w) |-> BlockItem(src, w[i], call.io)]

OkItems(items) == SelectSeq(items, LAMBDA it : it.res.ok)
HeightsFrom(items, src) ==
    {items[i].res.value : i \in {j \in 1..Len(items) : items[j].res.ok /\ items[j].src = src}}

\* Every row of both sources, the source that comes first in `direction` first.
WholeChain(direction) ==
    IF direction = Forward
    THEN RowsOf("off_chain", OldHeights, Forward)
         \o RowsOf("on_chain", OnChainHeights, Forward)
    ELSE RowsOf("on_chain", OnChainHeights, Reverse)
         \o RowsOf("off_chain", OldHeights, Reverse)

\* C1 - View isolation: every query issued through a ReadView returns what the
\* stores held when ReadDatabase::view took its two views, whatever was
\* committed to either store afterwards.
C1_ViewIsolation ==
    (read_view.pc = "ready" /\ call.op # "none") =>
        /\ call.op = "latest_height" => call.ret = Ok(taken.on_chain.latest)
        /\ call.op = "tx_status" =>
              call.ret = IF call.h <= taken.off_chain.height
                         THEN Ok(call.h) ELSE Err("NotFound")
        /\ call.op = "blocks" =>
              call.ret = blocks(taken, call.height, call.direction, call.io)

\* A query answered from the view after both stores had moved on.
C1_Witness ==
    /\ read_view.pc = "ready"
    /\ call.op = "latest_height"
    /\ call.now.on_chain.latest > taken.on_chain.latest
    /\ call.now.off_chain.height > taken.off_chain.height
    /\ call.ret = Ok(taken.on_chain.latest)

\* C3 - Boundary correctness (forward): blocks(Some(h), Forward) returns the
\* historical-index rows with height in [h, boundary) ascending, followed by
\* the current-epoch rows with height >= max(h, boundary) ascending.
C3_ForwardFromHeight ==
    (/\ IsBlocksCall
     /\ call.height # None
     /\ call.direction = Forward
     /\ call.io.genesis = "ok"
     /\ Partitioned) =>
        LET h == call.height[1] IN
        call.ret =
            RowsOf("off_chain", {x \in OldHeights : h <= x /\ x < Boundary}, Forward)
            \o RowsOf("on_chain", {x \in OnChainHeights : x >= Max2(h, Boundary)}, Forward)

\* A forward scan that starts in the history, above its first row, and passes
\* into the current epoch.
C3_Witness ==
    /\ IsBlocksCall
    /\ call.height # None
    /\ call.direction = Forward
    /\ call.io.genesis = "ok"
    /\ call.io.bad = {}
    /\ call.height[1] < Boundary
    /\ \E x \in OldHeights : x < call.height[1]
    /\ HeightsFrom(call.ret, "off_chain") # {}
    /\ Cardinality(HeightsFrom(call.ret, "on_chain")) >= 2

\* C4 - Reverse range with a start height: at or after the boundary the
\* current-epoch rows from h backward, then every historical-index row,
\* descending; before the boundary only the historical-index rows from h
\* backward.
C4_ReverseFromHeight ==
    (/\ IsBlocksCall
     /\ call.height # None
     /\ call.direction = Reverse
     /\ call.io.genesis = "ok"
     /\ Partitioned) =>
        LET h == call.height[1] IN
        IF h >= Boundary
        THEN call.ret =
                RowsOf("on_chain", {x \in OnChainHeights : x <= h}, Reverse)
                \o RowsOf("off_chain", OldHeights, Reverse)
        ELSE /\ call.ret = RowsOf("off_chain", {x \in OldHeights : x <= h}, Reverse)
             /\ \A i \in 1..Len(call.ret) : call.ret[i].src = "off_chain"

\* A reverse scan that starts exactly at the boundary and passes into the history.
C4_Witness ==
    /\ IsBlocksCall
    /\ call.height = Some(Boundary)
    /\ call.direction = Reverse
    /\ call.io.genesis = "ok"
    /\ call.io.bad = {}
    /\ HeightsFrom(call.ret, "on_chain") = {Boundary}
    /\ Cardinality(HeightsFrom(call.ret, "off_chain")) >= 2

\* C5 - Range with no start height: Forward returns all historical-index rows
\* followed by all current-epoch rows, Reverse all current-epoch rows followed
\* by all historical-index rows, each part whole.
C5_NoStartHeight ==
    (IsBlocksCall /\ call.height = None) => call.ret = WholeChain(call.direction)

\* A reverse scan of the whole chain with rows in both sources.
C5_Witness ==
    /\ IsBlocksCall
    /\ call.height = None
    /\ call.direction = Reverse
    /\ call.io.bad = {}
    /\ Cardinality(HeightsFrom(call.ret, "on_chain")) >= 2
    /\ Cardinality(HeightsFrom(call.ret, "off_chain")) >= 2

\* C6 (as stated) - whenever the read of the regenesis boundary fails, blocks
\* yields that error and no block row, with or without a start height.
C6_AnyStartShortCircuits ==
    (IsBlocksCall /\ call.io.genesis # "ok") =>
        call.ret = << [src |-> "on_chain", res |-> Err(call.io.genesis)] >>

\* C6 (amended) - with a start height, a failed read of the boundary makes
\* blocks yield that one error and nothing else; with no start height the
\* boundary is not read and the rows of both sources are returned.
C6_StartHeightShortCircuits ==
    (IsBlocksCall /\ call.io.genesis # "ok") =>
        IF call.height # None
        THEN call.ret = << [src |-> "on_chain", res |-> Err(call.io.genesis)] >>
        ELSE call.ret = WholeChain(call.direction)

\* A scan from a height at which both sources hold rows, the boundary unreadable.
C6_Witness ==
    /\ IsBlocksCall
    /\ call.height # None
    /\ call.io.genesis = "Io"
    /\ OldHeights # {}
    /\ call.height[1] \in OnChainHeights
    /\ Len(call.ret) = 1
    /\ ~call.ret[1].res.ok

\* C7 - Monotonic across the source boundary: the heights of the rows blocks
\* returns are strictly increasing for Forward and strictly decreasing for
\* Reverse, over the whole sequence.
C7_Monotonic ==
    IsBlocksCall =>
        LET rows == OkItems(call.ret) IN
        \A i \in 1..(Len(rows) - 1) :
            IF call.direction = Forward
            THEN rows[i].res.value < rows[i + 1].res.value
            ELSE rows[i].res.value > rows[i + 1].res.value

\* A reverse scan whose rows pass from the current epoch into the history.
C7_Witness ==
    /\ IsBlocksCall
    /\ call.direction = Reverse
    /\ \E i \in 1..(Len(call.ret) - 1) :
          /\ call.ret[i].src = "on_chain"
          /\ call.ret[i + 1].src = "off_chain"
          /\ call.ret[i].res.ok
          /\ call.ret[i + 1].res.ok

Fed == hist.fed
FedTable(i) == Fed[i].table
FedKey(i) == Fed[i].entry.key

\* Entry i handed to a handler records a height above the bound of its table.
FedAboveBound(i) ==
    /\ FedTable(i) \in HeightTables
    /\ Fed[i].entry.value > BoundOf(FedTable(i), handler)

\* Entry i repeats the key of an earlier entry of its table.
FedRepeats(i) ==
    \E j \in 1..(i - 1) : FedTable(j) = FedTable(i) /\ FedKey(j) = FedKey(i)

\* Entry i of a per-row table has a key the table already holds: in the
\* store before the import, or from an earlier entry.
FedDuplicate(i) ==
    /\ FedTable(i) \in PerRowTables
    /\ (Lookup(hist.db0[FedTable(i)], FedKey(i)) # {} \/ FedRepeats(i))

\* Some row of the import fails validation, or a store write fails.
InputInvalid ==
    \/ hist.write_failed
    \/ \E i \in 1..Len(Fed) : FedAboveBound(i) \/ FedDuplicate(i)

IsProcessed == processed.table # "none"
\* The position in Fed of row i of the last group.
FedPos(i) == Len(Fed) - Len(processed.group) + i
\* Row i of the last group was reached by its handler.
Reached(i) == processed.at = 0 \/ i <= processed.at
RejectedWith(i, e) == processed.at = i /\ ~processed.ret.ok /\ processed.ret.err = e

\* C2 - Import atomicity: once a row handed to the import fails validation
\* (causal bound, duplicate key) or a store write fails, the store holds
\* exactly what it held before the import, earlier rows included.
C2_ImportAtomicity == InputInvalid => database = hist.db0

\* A second group fails on its second row after a first group of another
\* table and the first row of this one were staged; the import has ended.
C2_Witness ==
    /\ import.status = "failed"
    /\ IsProcessed
    /\ ~hist.write_failed
    /\ processed.at = 2
    /\ \E t \in Tables \ {processed.table} : processed.tx_before.changes[t] # {}
    /\ database = hist.db0

\* C9 - Causal-bound rejection: a coin, contract latest-UTXO or message row is
\* rejected by the causal-bound check exactly when its height is greater than
\* the genesis height (DA height for a message); a row at the bound is
\* rejected only as a duplicate or by a failed store write.
C9_CausalBound ==
    (IsProcessed /\ processed.table \in HeightTables) =>
        \A i \in 1..Len(processed.group) :
            Reached(i) =>
                LET above == processed.group[i].value
                                > BoundOf(processed.table, handler) IN
                /\ RejectedWith(i, "CausalBound") <=> above
                /\ (processed.at = i /\ ~above) =>
                      \/ RejectedWith(i, "Duplicate") /\ FedDuplicate(FedPos(i))
                      \/ RejectedWith(i, "StoreWrite") /\ processed.fail_at = i

\* A coin at the genesis height accepted, then a coin one above it rejected.
C9_Witness ==
    /\ IsProcessed
    /\ processed.table = "Coins"
    /\ handler.block_height = MaxGenesis
    /\ Len(processed.group) = 2
    /\ processed.group[1].value = handler.block_height
    /\ processed.group[2].value = handler.block_height + 1
    /\ RejectedWith(2, "CausalBound")
    /\ processed.group[1] \in tx.changes["Coins"]

\* C10 - Duplicate rejection: once two entries with the same key were handed
\* to the coins, contract code or contract latest-UTXO handler, the import
\* fails, whatever their order and values.
SimpleTables == {"Coins", "ContractsRawCode", "ContractsLatestUtxo"}
C10_DuplicateRejection ==
    (\E i \in 1..Len(Fed) : FedTable(i) \in SimpleTables /\ FedRepeats(i)) =>
        /\ ~processed.ret.ok
        /\ import.status # "committed"
        /\ database = hist.db0

\* Two contract codes under one key in one batch, with different values, the
\* second rejected as a duplicate and the import ended.
C10_Witness ==
    /\ import.status = "failed"
    /\ IsProcessed
    /\ processed.table = "ContractsRawCode"
    /\ Len(processed.group) = 2
    /\ processed.group[1].key = processed.group[2].key
    /\ processed.group[1].value # processed.group[2].value
    /\ RejectedWith(2, "Duplicate")

\* ---- the two directions of one start height
\* The rows of both sources with height in S, in ascending order.
ForwardRows(S) ==
    RowsOf("off_chain", S \cap OldHeights, Forward)
    \o RowsOf("on_chain", S \cap OnChainHeights, Forward)

\* C11 (as stated) - Direction symmetry: for every start height h the sequence
\* blocks(Some(h), Reverse) returns is the exact reverse of the sequence
\* blocks(Some(h), Forward) returns.
C11_DirectionSymmetry ==
    (/\ IsBlocksCall
     /\ call.height # None
     /\ call.direction = Reverse
     /\ call.io.genesis = "ok") =>
        call.ret = Rev(blocks(read_view, call.height, Forward, call.io))

\* C11 (amended) - blocks(Some(h), Forward) returns the rows of the whole
\* chain with height at least h, ascending; blocks(Some(h), Reverse) returns
\* the exact reverse of the rows of the whole chain with height at most h;
\* with no start height Reverse is the exact reverse of Forward.
C11_DirectionsMeetAtStart ==
    (/\ IsBlocksCall
     /\ call.height = None \/ call.io.genesis = "ok"
     /\ Partitioned) =>
        LET S == IF call.height = None THEN OldHeights \cup OnChainHeights
                 ELSE IF call.direction = Forward
                      THEN {x \in OldHeights \cup OnChainHeights : x >= call.height[1]}
                      ELSE {x \in OldHeights \cup OnChainHeights : x <= call.height[1]}
        IN  call.ret = IF call.direction = Forward THEN ForwardRows(S)
                       ELSE Rev(ForwardRows(S))

\* A reverse scan from the boundary that leaves out the rows above it and
\* passes into the history.
C11_Witness ==
    /\ IsBlocksCall
    /\ call.height = Some(Boundary)
    /\ call.direction = Reverse
    /\ call.io.genesis = "ok"
    /\ call.io.bad = {}
    /\ \E x \in OnChainHeights : x > call.height[1]
    /\ HeightsFrom(call.ret, "on_chain") = {Boundary}
    /\ HeightsFrom(call.ret, "off_chain") # {}
    /\ call.ret # Rev(blocks(read_view, call.height, Forward, call.io))

C13_EmptyImport ==
    (Len(Fed) = 0 /\ ~hist.write_failed) =>
        /\ processed.ret.ok
        /\ tx = NoTx
        /\ import.status # "failed"
        /\ database = hist.db0

\* An import of empty groups only, the last one of a bulk table, committed
\* over a store that was not empty.
C13_Witness ==
    /\ import.status = "committed"
    /\ import.groups = MaxGroups
    /\ Len(Fed) = 0
    /\ ~hist.write_failed
    /\ processed.table = "ContractsState"
    /\ Len(processed.group) = 0
    /\ hist.db0 # EmptyTables
    /\ database = hist.db0

\* ---- error items inside a scan
\* The rows a scan returns when every block can be read: the rows of both
\* sources from the start height on, in the direction of the scan.
CleanRows ==
    LET all == OldHeights \cup OnChainHeights
        S == IF call.height = None THEN all
             ELSE IF call.direction = Forward THEN {x \in all : x >= call.height[1]}
             ELSE {x \in all : x <= call.height[1]}
        w == IF call.direction = Forward THEN Ascending(S) ELSE Rev(Ascending(S))
    IN  [i \in 1..Len(w) |->
            [src |-> IF w[i] \in OnChainHeights THEN "on_chain" ELSE "off_chain",
             res |-> Ok(w[i])]]

\* C14 - An error item does not end the merged sequence: a block that fails
\* to be read yields an error item in its place, and every other row of that
\* source and of the following source is yielded as if nothing had failed;
\* only a failed read of the boundary (start height given) yields the error
\* alone.
C14_ErrorItemKeepsSequence ==
    (IsBlocksCall /\ Partitioned) =>
        IF call.height # None /\ call.io.genesis # "ok"
        THEN /\ Len(call.ret) = 1
             /\ call.ret[1].res = Err(call.io.genesis)
        ELSE /\ Len(call.ret) = Len(CleanRows)
             /\ \A i \in 1..Len(call.ret) :
                   /\ call.ret[i].src = CleanRows[i].src
                   /\ IF CleanRows[i].res.value \in call.io.bad
                      THEN ~call.ret[i].res.ok
                      ELSE call.ret[i] = CleanRows[i]

\* A scan over two sources whose first item is an error item of the first
\* source, followed by a row of the same source and by a row of the second.
C14_Witness ==
    /\ IsBlocksCall
    /\ Len(call.ret) >= 3
    /\ ~call.ret[1].res.ok
    /\ call.ret[2].src = call.ret[1].src
    /\ call.ret[2].res.ok
    /\ call.ret[Len(call.ret)].src # call.ret[1].src
    /\ call.ret[Len(call.ret)].res.ok

\* ---- point lookups
ClaimedOnChain ==
    {"message_exists", "message_is_spent", "contract_balances", "da_height",
     "block_history_proof", "get", "contains_key"}
ClaimedOffChain ==
    {"transaction_status", "relayed_tx_status", "owned_coins_ids",
     "owned_message_ids", "owned_transactions_ids", "contract_salt",
     "block_height", "old_block_consensus", "old_transaction"}

\* C15 - Each point lookup is routed to exactly one source and returns that
\* source's result unchanged, with one call and no retry: message existence
\* and spent status, contract balances, DA height, block-history proof,
\* latest height and storage get / contains_key to the on-chain view;
\* transaction status, relayed-transaction status, the owned indices,
\* contract salt, block height by id, old block consensus and old
\* transactions to the off-chain view.
C15_LookupRouting ==
    read_view.pc = "ready" =>
        /\ (call.op = "lookup" /\ call.method \in ClaimedOnChain) =>
              call.ret = call.answers.on_chain /\ call.asked = <<"on_chain">>
        /\ (call.op = "lookup" /\ call.method \in ClaimedOffChain) =>
              call.ret = call.answers.off_chain /\ call.asked = <<"off_chain">>
        /\ call.op = "latest_height" => call.ret = Ok(read_view.on_chain.latest)
        /\ call.op = "tx_status" =>
              call.ret = IF call.h <= read_view.off_chain.height
                         THEN Ok(call.h) ELSE Err("NotFound")

\* A contract-salt lookup that returned the failure of the off-chain source
\* although the on-chain source had an answer.
C15_Witness ==
    /\ read_view.pc = "ready"
    /\ call.op = "lookup"
    /\ call.method = "contract_salt"
    /\ call.answers.on_chain.ok
    /\ ~call.answers.off_chain.ok
    /\ call.ret = call.answers.off_chain
    /\ call.asked = <<"off_chain">>

\* C16 - Bulk tables bypass the per-row checks: the contract-state and
\* contract-balance handlers hand the whole group to the bulk merge in one
\* call, reject no row themselves (no causal-bound check, no duplicate-key
\* check), and succeed exactly when that one bulk operation succeeds.
C16_BulkBypassesChecks ==
    (IsProcessed /\ processed.table \in BulkTables) =>
        /\ processed.merged = <<processed.group>>
        /\ processed.at = 0
        /\ processed.ret.ok <=> processed.fail_at = 0
        /\ ~processed.ret.ok => processed.ret = Err("StoreWrite")
        /\ (processed.ret.ok /\ import.status = "running") =>
              \A t \in Tables :
                  tx.changes[t] =
                      IF t = processed.table
                      THEN MergeRows(processed.tx_before.changes[t],
                                     processed.group, Len(processed.group))
                      ELSE processed.tx_before.changes[t]

\* A contract-state group with two rows under one key, merged in one call
\* and accepted.
C16_Witness ==
    /\ IsProcessed
    /\ processed.table = "ContractsState"
    /\ import.status = "running"
    /\ Len(processed.group) >= 2
    /\ processed.group[1].key = processed.group[2].key
    /\ processed.merged = <<processed.group>>
    /\ processed.ret.ok
    /\ processed.group[2] \in tx.changes["ContractsState"]

\* C17 - No rollback inside a handler: when a per-row handler fails on row k
\* it returns that row's error at once; rows 1..k-1, all valid, stay staged
\* in the transaction, no row after k is staged, the other tables' staged
\* rows are untouched, and the staged rows go only when the coordinator
\* discards the transaction.
C17_NoRollbackInHandler ==
    (IsProcessed /\ processed.table \in PerRowTables /\ processed.at > 0) =>
        LET k == processed.at
            t == processed.table
            upto == MergeRows(processed.tx_before.changes[t], processed.group, k - 1)
        IN  /\ ~processed.ret.ok
            /\ \A i \in 1..(k - 1) :
                  /\ ~FedAboveBound(FedPos(i))
                  /\ ~FedDuplicate(FedPos(i))
                  /\ processed.fail_at # i
                  /\ processed.group[i] \in upto
            /\ import.status = "running" =>
                  /\ tx.changes[t] = IF RejectedWith(k, "Duplicate")
                                     THEN Put(upto, processed.group[k]) ELSE upto
                  /\ \A u \in Tables \ {t} :
                        tx.changes[u] = processed.tx_before.changes[u]
            /\ import.status # "running" => tx = NoTx

\* A message group of three rows failed on its second row: the first row is
\* staged, the third, under another nonce, is not.
C17_Witness ==
    /\ IsProcessed
    /\ processed.table = "Messages"
    /\ import.status = "running"
    /\ Len(processed.group) = 3
    /\ RejectedWith(2, "CausalBound")
    /\ processed.group[1] \in tx.changes["Messages"]
    /\ processed.group[3].key # processed.group[1].key
    /\ processed.group[3].value <= handler.da_block_height
    /\ Lookup(tx.changes["Messages"], processed.group[3].key) = {}

\* ---- the row a per-row handler failed on
FailedOnRow ==
    /\ IsProcessed
    /\ processed.table \in PerRowTables
    /\ processed.at > 0
    /\ import.status = "running"
FailedRow == processed.group[processed.at]
\* What the transaction held staged for the table right before the failed row.
StagedBeforeFailedRow ==
    MergeRows(processed.tx_before.changes[processed.table], processed.group,
              processed.at - 1)
StagedNow == tx.changes[processed.table]

\* C18 (as stated) - a row rejected because its key already exists has been
\* written first, so the transaction is never left as it was before that
\* row; a row rejected by the causal-bound check stages no write.
C18_DuplicateLeavesTxChanged ==
    FailedOnRow =>
        /\ RejectedWith(processed.at, "Duplicate") =>
              /\ Lookup(StagedNow, FailedRow.key) = {FailedRow}
              /\ StagedNow # StagedBeforeFailedRow
        /\ RejectedWith(processed.at, "CausalBound") =>
              StagedNow = StagedBeforeFailedRow

\* C18 (amended) - a row rejected because its key already exists has been
\* written first: what is staged under its key is the rejected row's value,
\* in place of whatever was staged there, and the transaction differs from
\* what it was before that row unless that very entry was already staged; a
\* row rejected by the causal-bound check stages no write.
C18_DuplicateWrittenFirst ==
    FailedOnRow =>
        /\ RejectedWith(processed.at, "Duplicate") =>
              /\ Lookup(StagedNow, FailedRow.key) = {FailedRow}
              /\ StagedNow = Put(StagedBeforeFailedRow, FailedRow)
              /\ FailedRow \notin StagedBeforeFailedRow =>
                    StagedNow # StagedBeforeFailedRow
        /\ RejectedWith(processed.at, "CausalBound") =>
              /\ StagedNow = StagedBeforeFailedRow
              /\ FailedRow \notin StagedNow

\* A second contract code under a key staged by the row before it: the row
\* is rejected as a duplicate and its code has replaced the staged one.
C18_Witness ==
    /\ FailedOnRow
    /\ processed.table = "ContractsRawCode"
    /\ RejectedWith(2, "Duplicate")
    /\ processed.group[1].key = processed.group[2].key
    /\ processed.group[1].value # processed.group[2].value
    /\ processed.group[1] \in StagedBeforeFailedRow
    /\ Lookup(StagedNow, FailedRow.key) = {processed.group[2]}

\* ---- keys held before the last group
\* The key is in the store the import started from.
InStoreBefore(table, key) == Lookup(hist.db0[table], key) # {}
\* The key was handed over in an earlier group of the table.
InEarlierGroup(table, key) ==
    \E j \in 1..(Len(Fed) - Len(processed.group)) :
        FedTable(j) = table /\ FedKey(j) = key

\* C19 - Duplicate keys are detected across groups and against existing data:
\* a row of a per-row table that its handler reaches is rejected whenever its
\* key was staged by an earlier group of the import or is in the destination
\* store already - as a duplicate, unless its height or a failing write
\* rejects it before.
C19_DuplicateAcrossGroups ==
    (IsProcessed /\ processed.table \in PerRowTables) =>
        \A i \in 1..Len(processed.group) :
            (/\ Reached(i)
             /\ \/ InStoreBefore(processed.table, processed.group[i].key)
                \/ InEarlierGroup(processed.table, processed.group[i].key)) =>
                /\ processed.at = i
                /\ ~processed.ret.ok
                /\ (~FedAboveBound(FedPos(i)) /\ processed.fail_at # i) =>
                      RejectedWith(i, "Duplicate")

\* The first row of a second latest-UTXO group rejected for a key that only
\* the first group of the import had staged.
C19_Witness ==
    /\ IsProcessed
    /\ processed.table = "ContractsLatestUtxo"
    /\ import.groups = 2
    /\ RejectedWith(1, "Duplicate")
    /\ ~InStoreBefore("ContractsLatestUtxo", processed.group[1].key)
    /\ InEarlierGroup("ContractsLatestUtxo", processed.group[1].key)
    /\ Lookup(processed.tx_before.changes["ContractsLatestUtxo"],
              processed.group[1].key) # {}

\* C20 - Messages are duplicate-checked too: a message row whose nonce is in
\* the Messages table already, or was handed over earlier in the import, is
\* rejected as a duplicate when its handler reaches it, although its DA
\* height passes the causal-bound check (and the write itself does not fail).
C20_MessageDuplicateRejected ==
    (IsProcessed /\ processed.table = "Messages") =>
        \A i \in 1..Len(processed.group) :
            (/\ Reached(i)
             /\ processed.group[i].value <= handler.da_block_height
             /\ processed.fail_at # i
             /\ \/ InStoreBefore("Messages", processed.group[i].key)
                \/ FedRepeats(FedPos(i))) =>
                /\ RejectedWith(i, "Duplicate")
                /\ import.status # "committed"

\* A message at the DA height of the import, under a nonce the Messages table
\* held before the import, rejected as a duplicate and the import ended.
C20_Witness ==
    /\ IsProcessed
    /\ processed.table = "Messages"
    /\ import.status = "failed"
    /\ handler.da_block_height = MaxGenesis
    /\ RejectedWith(1, "Duplicate")
    /\ processed.group[1].value = handler.da_block_height
    /\ InStoreBefore("Messages", processed.group[1].key)
    /\ database = hist.db0

====
